---- MODULE Spec2Model ----
(***************************************************************************)
(* Model of firecam/lib/goog_helper.py: the storage-access layer over      *)
(* Google Drive (retry-wrapped create/list/upload, paged search, download  *)
(* by name) and Google Cloud Storage (bucket file operations and the       *)
(* recursive directory download), the gs:// path functions with readFile   *)
(* and copyFile, and the cached storage and pubsub clients.                *)
(*                                                                         *)
(* Spec: Drive functions.  SpecStore: bucket functions.  SpecPath:         *)
(* parseGCSPath, repackGCSPath, readFile.  SpecCopy: copyFile.             *)
(* SpecClient: getStorageClient, getPubsubClient and their callers.        *)
(*                                                                         *)
(* Python values: None is the string "None"; a raised exception, a process *)
(* exit and a normal return are told apart by the variable outcome.        *)
(***************************************************************************)
EXTENDS Integers, Sequences, FiniteSets, TLC

None == "None"

\* ---------------------------------------------------------------- bounds
MaxPages == 3      \* pages of the Drive listing drawn in Init
MaxItems == 2      \* items per page
MaxFetch == 4      \* page fetches of one searchAllFiles call that are followed
MaxCreated == 1    \* items the Drive backend creates in one behaviour
MaxRuns == 2       \* calls of the bucket functions in one behaviour
MaxDepth == 4      \* frames of downloadBucketDir before the interpreter's recursion limit
MaxContainer == 2  \* characters of the bucket names tried
MaxName == 3       \* characters of the object names tried
MaxCalls == 3      \* calls of the client functions in one behaviour

\* ------------------------------------------------------ program constants
createFolderRetries == 5
listRetries == 5
uploadRetries == 5
sleepSeconds == 5

\* continuation tokens the Drive backend may hand out
TokenValues == {"t1", "t2", "init"}

VARIABLES
    pages,          \* Drive backend: the paged result of the list query
    created,        \* Drive backend: number of items created so far
    op,             \* the public function being executed, or "idle"
    pc,             \* position inside it
    retriesLeft,    \* local of the running retry loop
    invocations,    \* remote calls made by the running retry loop
    sleeps,         \* time.sleep(5) calls made by the running retry loop
    log,            \* logging lines emitted by the running retry loop
    pageToken,      \* param['pageToken'] of the running list call
    sent,           \* page tokens of the list calls made by the running function
    allItems,       \* searchAllFiles: allItems
    nextPageToken,  \* searchAllFiles: nextPageToken
    npt,            \* searchFiles: its npt argument
    outcome,        \* "pending" | "value" | "None" | "exit" | an exception's name
    retval,         \* the returned value when outcome = "value"
    localFile,      \* downloadFile: <<>> or <<id of the file whose bytes are at localFilePath>>
    bucket,         \* GCS backend: the object names (keys) of the bucket
    localFiles,     \* local file system: file path -> the key its bytes came from
    localDirs,      \* local file system: the directories
    stack,          \* downloadBucketDir: the frames of the recursion, outermost first
    fetched,        \* keys whose download_to_filename reached the backend in this run
    localAtStart,   \* the local files as they were when the running function was called
    runs,           \* calls of the bucket functions made so far
    args,           \* the arguments of the running function, where a property needs them
    remote,         \* the storage calls made by the running readFile / copyFile
    storageCached,  \* getStorageClient.cachedClient: 0 (None) or the client's number
    pubsubCached,   \* getPubsubClient.cachedClient: 0 (None) or the client's number
    storageMade,    \* storage clients constructed so far
    pubsubMade,     \* pubsub clients constructed so far
    gcpServiceKey   \* settings.gcpServiceKey: "absent", "" or "key"

dvars == <<pages, created, op, pc, retriesLeft, invocations, sleeps, log,
           pageToken, sent, allItems, nextPageToken, npt, outcome, retval, localFile>>

svars == <<bucket, localFiles, localDirs, stack, fetched, localAtStart, runs>>

cvars == <<remote, storageCached, pubsubCached, storageMade, pubsubMade, gcpServiceKey>>

uvars == <<args, cvars>>

vars == <<dvars, svars, uvars>>

retryVars == <<retriesLeft, invocations, sleeps, log>>

\* ---------------------------------------------------------- Drive backend
RECURSIVE SumTo(_, _)
SumTo(cnt, i) == IF i = 0 THEN 0 ELSE cnt[i] + SumTo(cnt, i - 1)

FileName == "cam1"

\* a listing of n pages; page i holds cnt[i] items with ids unique over the
\* listing, and every page but the last carries the token tk[i]
MkPages(n, cnt, tk) ==
    [i \in 1..n |->
        [items |-> [j \in 1..cnt[i] |-> [id |-> SumTo(cnt, i - 1) + j, name |-> FileName]],
         token |-> IF i < n THEN tk[i] ELSE None]]

Listings ==
    { MkPages(n, cnt, tk) :
        <<n, cnt, tk>> \in
          { t \in UNION { {n} \X [1..n -> 0..MaxItems] \X [1..(n-1) -> TokenValues] : n \in 1..MaxPages } :
              \A i, j \in 1..(t[1] - 1) : i # j => t[3][i] # t[3][j] } }

\* files().list(pageToken=tok).execute(): the page the backend serves for tok
PageOf(tok) ==
    IF tok = None THEN 1
    ELSE 1 + CHOOSE j \in 1..(Len(pages) - 1) : pages[j].token = tok

\* Python truth value of a page token (None and '' are false)
Truthy(t) == t # None /\ t # ""

\* tokens the backend has handed out for this listing
ValidTokens == { pages[i].token : i \in 1..(Len(pages) - 1) }

\* ------------------------------------------------------------ retry loops
SleepAfterEveryFailure(left, s) == s + 1

\* `if retriesLeft > 0: time.sleep(5)` after a failed attempt
SleepIfRetriesLeft(left, s) == IF left > 0 THEN s + 1 ELSE s

\* the except branch logging the retries left before the decrement
FailedAttemptLogsBeforeDecrement ==
    /\ retriesLeft' = retriesLeft - 1
    /\ invocations' = invocations + 1
    /\ log' = Append(log, <<"warning", retriesLeft>>)
    /\ sleeps' = SleepIfRetriesLeft(retriesLeft - 1, sleeps)

\* the except branch: one warning carrying the retries left, then the sleep
FailedAttempt ==
    /\ retriesLeft' = retriesLeft - 1
    /\ invocations' = invocations + 1
    /\ log' = Append(log, <<"warning", retriesLeft - 1>>)
    /\ sleeps' = SleepIfRetriesLeft(retriesLeft - 1, sleeps)

SucceededAttemptThenSleeps ==
    /\ retriesLeft' = retriesLeft - 1
    /\ invocations' = invocations + 1
    /\ sleeps' = sleeps + 1
    /\ UNCHANGED log

\* the try branch returned: the loop is left through `return`
SucceededAttempt ==
    /\ retriesLeft' = retriesLeft - 1
    /\ invocations' = invocations + 1
    /\ UNCHANGED <<log, sleeps>>

\* `while retriesLeft > 0` is false: logging.error(...) and return None
LoopExhausted ==
    /\ log' = Append(log, <<"error">>)
    /\ UNCHANGED <<retriesLeft, invocations, sleeps>>

\* entry of a retry loop: retriesLeft = n
EnterRetry(n) ==
    /\ retriesLeft' = n
    /\ invocations' = 0
    /\ sleeps' = 0
    /\ log' = <<>>

Finish(how, val) ==
    /\ pc' = "done"
    /\ outcome' = how
    /\ retval' = val

\* ------------------------------------------------------------ createFolder
CallCreateFolder ==
    /\ UNCHANGED svars
    /\ UNCHANGED uvars
    /\ op = "idle" /\ created < MaxCreated
    /\ op' = "createFolder" /\ pc' = "retry"
    /\ EnterRetry(createFolderRetries)
    /\ UNCHANGED <<pages, created, pageToken, sent, allItems, nextPageToken, npt,
                   outcome, retval, localFile>>

CreateFolderAttempt ==
    /\ UNCHANGED svars
    /\ UNCHANGED uvars
    /\ op = "createFolder" /\ pc = "retry" /\ retriesLeft > 0
    /\ \/ /\ SucceededAttempt
          /\ created' = created + 1
          /\ Finish("value", created + 1)
       \/ /\ FailedAttempt
          /\ UNCHANGED <<created, pc, outcome, retval>>
    /\ UNCHANGED <<pages, op, pageToken, sent, allItems, nextPageToken, npt, localFile>>

CreateFolderExhausted ==
    /\ UNCHANGED svars
    /\ UNCHANGED uvars
    /\ op = "createFolder" /\ pc = "retry" /\ ~(retriesLeft > 0)
    /\ LoopExhausted
    /\ Finish("None", <<>>)
    /\ UNCHANGED <<pages, created, op, pageToken, sent, allItems, nextPageToken, npt, localFile>>

\* -------------------------------------------------------------- uploadFile
CallUploadFile ==
    /\ UNCHANGED svars
    /\ UNCHANGED uvars
    /\ op = "idle" /\ created < MaxCreated
    /\ op' = "uploadFile" /\ pc' = "retry"
    /\ EnterRetry(uploadRetries)
    /\ UNCHANGED <<pages, created, pageToken, sent, allItems, nextPageToken, npt,
                   outcome, retval, localFile>>

UploadFileAttempt ==
    /\ UNCHANGED svars
    /\ UNCHANGED uvars
    /\ op = "uploadFile" /\ pc = "retry" /\ retriesLeft > 0
    /\ \/ /\ SucceededAttempt
          /\ created' = created + 1
          /\ Finish("value", created + 1)
       \/ /\ FailedAttempt
          /\ UNCHANGED <<created, pc, outcome, retval>>
    /\ UNCHANGED <<pages, op, pageToken, sent, allItems, nextPageToken, npt, localFile>>

UploadFileExhausted ==
    /\ UNCHANGED svars
    /\ UNCHANGED uvars
    /\ op = "uploadFile" /\ pc = "retry" /\ ~(retriesLeft > 0)
    /\ LoopExhausted
    /\ Finish("None", <<>>)
    /\ UNCHANGED <<pages, created, op, pageToken, sent, allItems, nextPageToken, npt, localFile>>

\* ---------------------------------------- driveListFilesQueryWithNextToken
\* a call of driveListFilesQueryWithNextToken(pageToken=tok) from the running
\* function: param['pageToken'] = tok, retriesLeft = 5
EnterList(tok) ==
    /\ pageToken' = tok
    /\ sent' = Append(sent, tok)
    /\ EnterRetry(listRetries)

\* searchFiles passing no token whatever npt is
TokenForBackendAlwaysNone(n) == None

\* searchFiles, `if npt:` branch: 'init' stands for no token
TokenForBackend(n) == IF n = "init" THEN None ELSE n

\* downloadFileByID: the media download either completes and the bytes are
\* written to localFilePath, or the backend fault propagates before the write
DownloadFileByID(fileID) ==
    \/ /\ localFile' = <<fileID>>
       /\ Finish("None", <<>>)
    \/ /\ UNCHANGED localFile
       /\ Finish("BackendError", <<>>)

DownloadFileBodyUnique(files) ==
    IF Len(files) # 1
    THEN /\ Finish("exit", <<>>)
         /\ UNCHANGED localFile
    ELSE DownloadFileByID(files[1].id)

\* downloadFile after driveListFilesByName returned files
DownloadFileBody(files) ==
    IF Len(files) < 1
    THEN /\ Finish("exit", <<>>)
         /\ UNCHANGED localFile
    ELSE DownloadFileByID(files[1].id)

GetDirBodyFirstMatch(dirs) ==
    IF Len(dirs) < 1
    THEN Finish("Exception", <<>>)
    ELSE Finish("value", <<dirs[1].id, dirs[1].name>>)

\* getDirForClassCamera returning None on a wrong match count
GetDirBodyNoneOnMismatch(dirs) ==
    IF Len(dirs) # 1
    THEN Finish("None", <<>>)
    ELSE Finish("value", <<dirs[1].id, dirs[1].name>>)

\* getDirForClassCamera after driveListFilesByName returned dirs
GetDirBody(dirs) ==
    IF Len(dirs) # 1
    THEN Finish("Exception", <<>>)
    ELSE Finish("value", <<dirs[1].id, dirs[1].name>>)

SearchAllFilesTurnDropsPage(items, token) ==
    /\ allItems' = IF Truthy(token) THEN allItems \o items ELSE allItems
    /\ nextPageToken' = token
    /\ IF Truthy(token)
       THEN IF Len(sent) < MaxFetch
            THEN /\ EnterList(TokenForBackend(token))
                 /\ UNCHANGED <<pc, outcome, retval>>
            ELSE /\ pc' = "capped"
                 /\ UNCHANGED <<outcome, retval, pageToken, sent>>
                 /\ SucceededAttempt
       ELSE /\ Finish("value", allItems)
            /\ UNCHANGED <<pageToken, sent>>
            /\ SucceededAttempt

\* searchAllFiles, one turn of `while nextPageToken:` after searchFiles
\* returned (items, token)
SearchAllFilesTurn(items, token) ==
    /\ allItems' = allItems \o items
    /\ nextPageToken' = token
    /\ IF Truthy(token)
       THEN IF Len(sent) < MaxFetch
            THEN /\ EnterList(TokenForBackend(token))
                 /\ UNCHANGED <<pc, outcome, retval>>
            ELSE /\ pc' = "capped"
                 /\ UNCHANGED <<outcome, retval, pageToken, sent>>
                 /\ SucceededAttempt
       ELSE /\ Finish("value", allItems \o items)
            /\ UNCHANGED <<pageToken, sent>>
            /\ SucceededAttempt

\* what the running function does with the (items, nextPageToken) tuple the
\* list call returned
ListReturnsTuple(items, token) ==
    CASE op = "driveListFilesQueryWithNextToken" ->
            /\ SucceededAttempt
            /\ Finish("value", <<items, token>>)
            /\ UNCHANGED <<pageToken, sent, allItems, nextPageToken, localFile>>
      [] op = "driveListFilesByName" ->
            /\ SucceededAttempt
            /\ Finish("value", items)
            /\ UNCHANGED <<pageToken, sent, allItems, nextPageToken, localFile>>
      [] op = "searchFiles" ->
            /\ SucceededAttempt
            /\ IF Truthy(npt) THEN Finish("value", <<items, token>>)
                              ELSE Finish("value", items)
            /\ UNCHANGED <<pageToken, sent, allItems, nextPageToken, localFile>>
      [] op = "searchAllFiles" ->
            /\ SearchAllFilesTurn(items, token)
            /\ UNCHANGED localFile
      [] op = "downloadFile" ->
            /\ SucceededAttempt
            /\ DownloadFileBody(items)
            /\ UNCHANGED <<pageToken, sent, allItems, nextPageToken>>
      [] op = "getDirForClassCamera" ->
            /\ SucceededAttempt
            /\ GetDirBody(items)
            /\ UNCHANGED <<pageToken, sent, allItems, nextPageToken, localFile>>

\* what the running function does with the None the list call returned:
\* every caller but the direct ones unpacks it as a tuple
ListReturnsNone ==
    /\ IF \/ op = "driveListFilesQueryWithNextToken"
          \/ (op = "searchFiles" /\ Truthy(npt))
       THEN Finish("None", <<>>)
       ELSE Finish("TypeError", <<>>)
    /\ UNCHANGED <<pageToken, sent, allItems, nextPageToken, localFile>>

ListOps == {"driveListFilesQueryWithNextToken", "driveListFilesByName", "searchFiles",
            "searchAllFiles", "downloadFile", "getDirForClassCamera"}

ListAttempt ==
    /\ UNCHANGED svars
    /\ UNCHANGED uvars
    /\ op \in ListOps /\ pc = "retry" /\ retriesLeft > 0
    /\ \/ ListReturnsTuple(pages[PageOf(pageToken)].items, pages[PageOf(pageToken)].token)
       \/ /\ FailedAttempt
          /\ UNCHANGED <<pc, outcome, retval, pageToken, sent, allItems, nextPageToken, localFile>>
    /\ UNCHANGED <<pages, created, op, npt>>

ListExhausted ==
    /\ UNCHANGED svars
    /\ UNCHANGED uvars
    /\ op \in ListOps /\ pc = "retry" /\ ~(retriesLeft > 0)
    /\ LoopExhausted
    /\ ListReturnsNone
    /\ UNCHANGED <<pages, created, op, npt>>

\* ------------------------------------------------------- callers of the list
CallList(name, n, tok) ==
    /\ UNCHANGED svars
    /\ UNCHANGED uvars
    /\ op = "idle"
    /\ op' = name /\ pc' = "retry"
    /\ npt' = n
    /\ pageToken' = tok
    /\ sent' = <<tok>>
    /\ EnterRetry(listRetries)
    /\ allItems' = <<>>
    /\ nextPageToken' = None
    /\ UNCHANGED <<pages, created, outcome, retval, localFile>>

CallDriveListFilesQueryWithNextToken ==
    \E tok \in {None} \cup ValidTokens :
        CallList("driveListFilesQueryWithNextToken", None, tok)

CallDriveListFilesByName ==
    /\ CallList("driveListFilesByName", None, None)

\* searchFiles(npt): with a true npt the list is called with the token ('init'
\* as None), else driveListFilesQuery calls it without a token
CallSearchFiles ==
    \E n \in {None, "init"} \cup ValidTokens :
        CallList("searchFiles", n, IF Truthy(n) THEN TokenForBackend(n) ELSE None)

\* searchAllFiles: allItems = [], nextPageToken = 'init', first searchFiles call
CallSearchAllFiles ==
    /\ CallList("searchAllFiles", None, TokenForBackend("init"))

CallDownloadFile ==
    /\ CallList("downloadFile", None, None)

CallGetDirForClassCamera ==
    /\ CallList("getDirForClassCamera", None, None)

\* the function has returned, raised or exited; the caller goes on
Return ==
    /\ UNCHANGED svars
    /\ UNCHANGED uvars
    /\ pc \in {"done", "capped"}
    /\ op' = "idle" /\ pc' = "idle"
    /\ outcome' = "pending" /\ retval' = <<>>
    /\ EnterRetry(0)
    /\ pageToken' = None /\ sent' = <<>>
    /\ allItems' = <<>> /\ nextPageToken' = None /\ npt' = None
    /\ UNCHANGED <<pages, created, localFile>>

Init ==
    /\ pages \in Listings
    /\ created = 0
    /\ op = "idle" /\ pc = "idle"
    /\ retriesLeft = 0 /\ invocations = 0 /\ sleeps = 0 /\ log = <<>>
    /\ pageToken = None /\ sent = <<>>
    /\ allItems = <<>> /\ nextPageToken = None /\ npt = None
    /\ outcome = "pending" /\ retval = <<>>
    /\ localFile = <<>>
    /\ bucket = {} /\ localFiles = [q \in {} |-> <<>>] /\ localDirs = {}
    /\ stack = <<>> /\ fetched = <<>> /\ localAtStart = localFiles /\ runs = 0
    /\ args = <<>> /\ remote = <<>>
    /\ storageCached = 0 /\ pubsubCached = 0 /\ storageMade = 0 /\ pubsubMade = 0
    /\ gcpServiceKey = "key"

Next ==
    \/ CallCreateFolder
    \/ CreateFolderAttempt
    \/ CreateFolderExhausted
    \/ CallUploadFile
    \/ UploadFileAttempt
    \/ UploadFileExhausted
    \/ CallDriveListFilesQueryWithNextToken
    \/ CallDriveListFilesByName
    \/ CallSearchFiles
    \/ CallSearchAllFiles
    \/ CallDownloadFile
    \/ CallGetDirForClassCamera
    \/ ListAttempt
    \/ ListExhausted
    \/ Return

Spec == Init /\ [][Next]_vars

\* =================================================== Cloud Storage functions
\* Strings are sequences of one-character strings.

\* the object names the bucket may hold
KeyUniverse ==
    { <<"a", "/", "f", "1">>,                      \* a/f1
      <<"a", "/", "g">>,                           \* a/g
      <<"a", "/", "b", "/", "f", "2">>,            \* a/b/f2
      <<"a", "/", "b", "/", "c", "/", "f">>,       \* a/b/c/f
      <<"a", "/", "/", "f">>,                      \* a//f
      <<"a", "/", "b", "/">>,                      \* a/b/  (a folder placeholder object)
      <<"x", "/", "h">> }                          \* x/h

\* the dirID arguments of downloadBucketDir and its localDirPath
DirArgs == { <<"a">>, <<"a", "/">> }
LocalRoot == <<"L">>

\* byte value of a character (object names are listed in byte order)
Ord(c) ==
    CASE c = "/" -> 47 [] c = "1" -> 49 [] c = "2" -> 50 [] c = "L" -> 76
      [] c = "a" -> 97 [] c = "b" -> 98 [] c = "c" -> 99 [] c = "f" -> 102
      [] c = "g" -> 103 [] c = "h" -> 104 [] c = "x" -> 120

RECURSIVE LexLess(_, _)
LexLess(s, t) ==
    IF t = <<>> THEN FALSE
    ELSE IF s = <<>> THEN TRUE
    ELSE IF s[1] # t[1] THEN Ord(s[1]) < Ord(t[1])
    ELSE LexLess(Tail(s), Tail(t))

RECURSIVE Sorted(_)
Sorted(S) ==
    IF S = {} THEN <<>>
    ELSE LET lo == CHOOSE k \in S : \A o \in S \ {k} : LexLess(k, o)
         IN <<lo>> \o Sorted(S \ {lo})

\* the orders in which a Python set of strings may be iterated
Orders(S) == { q \in [1..Cardinality(S) -> S] : \A i, j \in DOMAIN q : i # j => q[i] # q[j] }

StartsWith(s, pre) == Len(s) >= Len(pre) /\ SubSeq(s, 1, Len(pre)) = pre
After(s, pre) == SubSeq(s, Len(pre) + 1, Len(s))
HasSlash(s) == \E i \in 1..Len(s) : s[i] = "/"
FirstSlash(s) == CHOOSE i \in 1..Len(s) : s[i] = "/" /\ \A j \in 1..(i - 1) : s[j] # "/"

\* s.split('/')[-1]
LastSegment(s) ==
    IF HasSlash(s)
    THEN LET i == CHOOSE i \in 1..Len(s) : s[i] = "/" /\ \A j \in (i + 1)..Len(s) : s[j] # "/"
         IN SubSeq(s, i + 1, Len(s))
    ELSE s

\* os.path.join(a, b) for a b that holds no '/'
Join(a, b) == IF a = <<>> \/ a[Len(a)] = "/" THEN a \o b ELSE a \o <<"/">> \o b

\* a directory path without its trailing separators
RECURSIVE NoTrailingSlash(_)
NoTrailingSlash(q) ==
    IF Len(q) > 1 /\ q[Len(q)] = "/" THEN NoTrailingSlash(SubSeq(q, 1, Len(q) - 1)) ELSE q

\* os.path.exists / os.path.isfile
PathExists(q) == NoTrailingSlash(q) \in localDirs \/ q \in DOMAIN localFiles
IsFile(q) == q \in DOMAIN localFiles

\* os.makedirs(q): q and the missing directories above it
MakeDirs(q) ==
    {NoTrailingSlash(q)} \cup
    { SubSeq(q, 1, i - 1) : i \in { j \in 2..Len(q) : q[j] = "/" /\ q[j - 1] # "/" } }

\* list_blobs that expands nested names whatever the delimiter
ListBlobsFlat(prefix, delimiter) == { k \in bucket : StartsWith(k, prefix) }

\* storageClient.list_blobs(bucketName, prefix, delimiter): the blobs ...
ListBlobs(prefix, delimiter) ==
    { k \in bucket : StartsWith(k, prefix) /\ (delimiter = "" \/ ~HasSlash(After(k, prefix))) }

\* ... and blobs.prefixes, filled when a delimiter is given
BlobPrefixes(prefix, delimiter) ==
    IF delimiter = "" THEN {}
    ELSE { prefix \o SubSeq(After(k, prefix), 1, FirstSlash(After(k, prefix))) :
             k \in { o \in bucket : StartsWith(o, prefix) /\ HasSlash(After(o, prefix)) } }

\* `[prefix[0:-1] for prefix in blobs.prefixes]`
StripLast(q) == SubSeq(q, 1, Len(q) - 1)

\* listBucketEntries(bucketName, prefix, getDirs, deep): the lists it may return
ListBucketEntriesResults(prefix, getDirs, deep) ==
    LET delimiter == IF deep THEN "" ELSE "/" IN
    IF getDirs
    THEN Orders({ StripLast(q) : q \in BlobPrefixes(prefix, delimiter) })
    ELSE { Sorted(ListBlobs(prefix, delimiter)) }

\* `if dirID[-1] != '/': dirID += '/'`
EnsureTrailingSlash(d) == IF d[Len(d)] # "/" THEN d \o <<"/">> ELSE d

\* the directory a file path lies in (<<>>: the working directory)
ParentDir(q) ==
    IF HasSlash(q)
    THEN NoTrailingSlash(SubSeq(q, 1, Len(q) - Len(LastSegment(q))))
    ELSE <<>>

\* open(localFilePath, 'wb') inside blob.download_to_filename can succeed
CanOpenForWrite(q) ==
    /\ q # <<>> /\ q[Len(q)] # "/"
    /\ q \notin localDirs
    /\ (ParentDir(q) = <<>> \/ ParentDir(q) \in localDirs)

WithFile(files, q, content) ==
    [r \in DOMAIN files \cup {q} |-> IF r = q THEN content ELSE files[r]]

\* exceptions of the storage client, named after the call that raised them
BackendErrors == {"ReadError", "UploadError", "DeleteError", "ListError", "DownloadError"}

DownloadBucketFileAlwaysFetches(fileID, localFilePath) ==
    IF ~CanOpenForWrite(localFilePath) /\ ~IsFile(localFilePath)
    THEN { [how |-> "OSError", calls |-> 0, files |-> localFiles] }
    ELSE { [how |-> "DownloadError", calls |-> 1, files |-> localFiles] } \cup
         { [how |-> "None", calls |-> 1, files |-> WithFile(localFiles, localFilePath, fileID)] :
             x \in { k \in {fileID} : k \in bucket } }

DownloadBucketFileRetryGated(fileID, localFilePath) ==
    IF IsFile(localFilePath)
    THEN { [how |-> "None", calls |-> 0, files |-> localFiles] }
    ELSE IF ~CanOpenForWrite(localFilePath)
    THEN { [how |-> "OSError", calls |-> 0, files |-> localFiles] }
    ELSE { [how |-> "None", calls |-> 5, files |-> localFiles] } \cup
         { [how |-> "None", calls |-> 1, files |-> WithFile(localFiles, localFilePath, fileID)] :
             x \in { k \in {fileID} : k \in bucket } }

\* downloadBucketFile fetching again when the local file is not the object's content
DownloadBucketFileRefreshesStale(fileID, localFilePath) ==
    IF IsFile(localFilePath) /\ localFiles[localFilePath] = fileID
    THEN { [how |-> "None", calls |-> 0, files |-> localFiles] }
    ELSE IF ~CanOpenForWrite(localFilePath)
    THEN { [how |-> "OSError", calls |-> 0, files |-> localFiles] }
    ELSE { [how |-> "DownloadError", calls |-> 1, files |-> localFiles] } \cup
         { [how |-> "None", calls |-> 1, files |-> WithFile(localFiles, localFilePath, fileID)] :
             x \in { k \in {fileID} : k \in bucket } }

\* downloadBucketFile(bucketName, fileID, localFilePath): how it can end, the
\* backend calls it makes and the local files it leaves
DownloadBucketFileResults(fileID, localFilePath) ==
    IF IsFile(localFilePath)
    THEN { [how |-> "None", calls |-> 0, files |-> localFiles] }
    ELSE IF ~CanOpenForWrite(localFilePath)
    THEN { [how |-> "OSError", calls |-> 0, files |-> localFiles] }
    ELSE { [how |-> "DownloadError", calls |-> 1, files |-> localFiles] } \cup
         { [how |-> "None", calls |-> 1, files |-> WithFile(localFiles, localFilePath, fileID)] :
             x \in { k \in {fileID} : k \in bucket } }

\* a bucket function is called: the call counters start again
EnterStoreOp(name) ==
    /\ op = "idle" /\ runs < MaxRuns
    /\ op' = name
    /\ runs' = runs + 1
    /\ localAtStart' = localFiles
    /\ sleeps' = 0 /\ log' = <<>> /\ retriesLeft' = 0
    /\ UNCHANGED <<pages, created, pageToken, sent, allItems, nextPageToken, npt, localFile>>
    /\ UNCHANGED cvars

\* ------------------------------------------------------------ readBucketFile
ReadBucketFile ==
    \E k \in KeyUniverse :
        /\ EnterStoreOp("readBucketFile")
        /\ UNCHANGED args
        /\ invocations' = 1
        /\ \/ k \in bucket /\ Finish("value", k)
           \/ Finish("ReadError", <<>>)
        /\ UNCHANGED <<bucket, localFiles, localDirs, stack, fetched>>

\* ---------------------------------------------------------- uploadBucketFile
UploadBucketFile ==
    \E k \in KeyUniverse, src \in {Join(LocalRoot, <<"f", "1">>)} :
        /\ EnterStoreOp("uploadBucketFile")
        /\ UNCHANGED args
        /\ IF ~IsFile(src)
           THEN /\ invocations' = 0
                /\ Finish("OSError", <<>>)
                /\ UNCHANGED bucket
           ELSE /\ invocations' = 1
                /\ \/ bucket' = bucket \cup {k} /\ Finish("None", <<>>)
                   \/ UNCHANGED bucket /\ Finish("UploadError", <<>>)
        /\ UNCHANGED <<localFiles, localDirs, stack, fetched>>

\* ---------------------------------------------------------- deleteBucketFile
DeleteBucketFile ==
    \E k \in KeyUniverse :
        /\ EnterStoreOp("deleteBucketFile")
        /\ UNCHANGED args
        /\ invocations' = 1
        /\ \/ k \in bucket /\ bucket' = bucket \ {k} /\ Finish("None", <<>>)
           \/ UNCHANGED bucket /\ Finish("DeleteError", <<>>)
        /\ UNCHANGED <<localFiles, localDirs, stack, fetched>>

\* --------------------------------------------------------- listBucketEntries
ListPrefixes == { <<>>, <<"a", "/">>, <<"a", "/", "b", "/">> }

ListBucketEntries ==
    \E prefix \in ListPrefixes, getDirs \in BOOLEAN, deep \in BOOLEAN :
        /\ EnterStoreOp("listBucketEntries")
        /\ args' = <<prefix, getDirs, deep>>
        /\ IF getDirs /\ deep
           THEN /\ invocations' = 0
                /\ Finish("AssertionError", <<>>)
           ELSE /\ invocations' = 1
                /\ \/ \E r \in ListBucketEntriesResults(prefix, getDirs, deep) : Finish("value", r)
                   \/ Finish("ListError", <<>>)
        /\ UNCHANGED <<bucket, localFiles, localDirs, stack, fetched>>

\* -------------------------------------------------------- downloadBucketFile
DownloadBucketFile ==
    \E k \in KeyUniverse, q \in {Join(LocalRoot, <<"f", "1">>), Join(LocalRoot, <<"g">>)} :
        /\ EnterStoreOp("downloadBucketFile")
        /\ args' = <<k, q>>
        /\ \E r \in DownloadBucketFileResults(k, q) :
              /\ invocations' = r.calls
              /\ localFiles' = r.files
              /\ fetched' = IF r.calls = 1 THEN <<k>> ELSE <<>>
              /\ Finish(r.how, <<>>)
        /\ UNCHANGED <<bucket, localDirs, stack>>

\* --------------------------------------------------------- downloadBucketDir
Top == stack[Len(stack)]
SetTop(f) == [stack EXCEPT ![Len(stack)] = f]

\* an exception leaves every frame of the recursion
Raise(e) ==
    /\ stack' = <<>>
    /\ Finish(e, <<>>)

CallDownloadBucketDir ==
    \E d \in DirArgs :
        /\ EnterStoreOp("downloadBucketDir")
        /\ UNCHANGED args
        /\ invocations' = 0
        /\ fetched' = <<>>
        /\ pc' = "run"
        /\ stack' = << [dirID |-> d, localDirPath |-> LocalRoot, pc |-> "enter",
                        files |-> <<>>, dirs |-> <<>>] >>
        /\ UNCHANGED <<bucket, localFiles, localDirs, outcome, retval>>

StoreFrame == <<pages, created, op, retriesLeft, sleeps, log, pageToken, sent, allItems,
                nextPageToken, npt, localFile, bucket, localAtStart, runs, args, cvars>>

\* makedirs, the trailing '/', and the listing of the files of this level
TreeEnter ==
    /\ op = "downloadBucketDir" /\ pc = "run" /\ Top.pc = "enter"
    /\ localDirs' = IF PathExists(Top.localDirPath) THEN localDirs
                    ELSE localDirs \cup MakeDirs(Top.localDirPath)
    /\ invocations' = invocations + 1
    /\ \/ /\ \E r \in ListBucketEntriesResults(EnsureTrailingSlash(Top.dirID), FALSE, FALSE) :
                stack' = SetTop([Top EXCEPT !.dirID = EnsureTrailingSlash(Top.dirID),
                                            !.files = r, !.pc = "files"])
          /\ UNCHANGED <<pc, outcome, retval>>
       \/ Raise("ListError")
    /\ UNCHANGED <<localFiles, fetched>>
    /\ UNCHANGED StoreFrame

TreeDownloadContinuesOnError ==
    /\ op = "downloadBucketDir" /\ pc = "run" /\ stack[Len(stack)].pc = "files"
    /\ stack[Len(stack)].files # <<>>
    /\ LET top == stack[Len(stack)]
           f == Head(top.files)
           localFilePath == Join(top.localDirPath, LastSegment(f))
       IN \E r \in DownloadBucketFileResults(f, localFilePath) :
            /\ invocations' = invocations + r.calls
            /\ localFiles' = r.files
            /\ fetched' = IF r.calls = 1 THEN Append(fetched, f) ELSE fetched
            /\ stack' = [stack EXCEPT ![Len(stack)] = [top EXCEPT !.files = Tail(top.files)]]
            /\ UNCHANGED <<pc, outcome, retval>>
    /\ UNCHANGED localDirs
    /\ UNCHANGED <<pages, created, op, retriesLeft, sleeps, log, pageToken, sent, allItems,
                   nextPageToken, npt, localFile, bucket, localAtStart, runs, args, cvars>>

\* `for f in files:` one file
TreeDownload ==
    /\ op = "downloadBucketDir" /\ pc = "run" /\ Top.pc = "files" /\ Top.files # <<>>
    /\ LET f == Head(Top.files)
           localFilePath == Join(Top.localDirPath, LastSegment(f))
       IN \E r \in DownloadBucketFileResults(f, localFilePath) :
            /\ invocations' = invocations + r.calls
            /\ localFiles' = r.files
            /\ fetched' = IF r.calls = 1 THEN Append(fetched, f) ELSE fetched
            /\ IF r.how = "None"
               THEN /\ stack' = SetTop([Top EXCEPT !.files = Tail(Top.files)])
                    /\ UNCHANGED <<pc, outcome, retval>>
               ELSE Raise(r.how)
    /\ UNCHANGED localDirs
    /\ UNCHANGED StoreFrame

\* the directories listed while files of this level are still to be downloaded
TreeListDirsBeforeFiles ==
    /\ op = "downloadBucketDir" /\ pc = "run" /\ stack[Len(stack)].pc = "files"
    /\ invocations' = invocations + 1
    /\ \/ /\ \E r \in ListBucketEntriesResults(stack[Len(stack)].dirID, TRUE, FALSE) :
                stack' = [stack EXCEPT ![Len(stack)] =
                             [stack[Len(stack)] EXCEPT !.dirs = r, !.pc = "dirs"]]
          /\ UNCHANGED <<pc, outcome, retval>>
       \/ /\ stack' = <<>>
          /\ pc' = "done" /\ outcome' = "ListError" /\ retval' = <<>>
    /\ UNCHANGED <<localFiles, localDirs, fetched>>
    /\ UNCHANGED <<pages, created, op, retriesLeft, sleeps, log, pageToken, sent, allItems,
                   nextPageToken, npt, localFile, bucket, localAtStart, runs, args, cvars>>

\* the listing of the directories of this level
TreeListDirs ==
    /\ op = "downloadBucketDir" /\ pc = "run" /\ Top.pc = "files" /\ Top.files = <<>>
    /\ invocations' = invocations + 1
    /\ \/ /\ \E r \in ListBucketEntriesResults(Top.dirID, TRUE, FALSE) :
                stack' = SetTop([Top EXCEPT !.dirs = r, !.pc = "dirs"])
          /\ UNCHANGED <<pc, outcome, retval>>
       \/ Raise("ListError")
    /\ UNCHANGED <<localFiles, localDirs, fetched>>
    /\ UNCHANGED StoreFrame

\* `for d in dirs:` the recursive call for one directory
TreeRecurse ==
    /\ op = "downloadBucketDir" /\ pc = "run" /\ Top.pc = "dirs" /\ Top.dirs # <<>>
    /\ LET d == Head(Top.dirs)
           nextPath == Join(Top.localDirPath, LastSegment(d))
       IN IF Len(stack) < MaxDepth
          THEN /\ stack' = Append(SetTop([Top EXCEPT !.dirs = Tail(Top.dirs)]),
                                  [dirID |-> d, localDirPath |-> nextPath, pc |-> "enter",
                                   files |-> <<>>, dirs |-> <<>>])
               /\ UNCHANGED <<pc, outcome, retval>>
          ELSE Raise("RecursionError")
    /\ UNCHANGED <<localFiles, localDirs, fetched, invocations>>
    /\ UNCHANGED StoreFrame

\* the loops of this level are over: return to the caller
TreeReturn ==
    /\ op = "downloadBucketDir" /\ pc = "run" /\ Top.pc = "dirs" /\ Top.dirs = <<>>
    /\ stack' = SubSeq(stack, 1, Len(stack) - 1)
    /\ IF Len(stack) = 1 THEN Finish("None", <<>>) ELSE UNCHANGED <<pc, outcome, retval>>
    /\ UNCHANGED <<localFiles, localDirs, fetched, invocations>>
    /\ UNCHANGED StoreFrame

\* the local directory as the bucket functions may find it
NoFiles == [q \in {} |-> <<>>]
InitialLocal ==
    { [files |-> NoFiles, dirs |-> {}],
      [files |-> NoFiles, dirs |-> {LocalRoot}],
      [files |-> WithFile(NoFiles, Join(LocalRoot, <<"f", "1">>), <<>>), dirs |-> {LocalRoot}] }

\* the bucket and the local directory as found; the storage client was built
\* by an earlier call (SpecClient covers its construction)
InitStore ==
    /\ pages = << [items |-> <<>>, token |-> None] >>
    /\ created = 0
    /\ op = "idle" /\ pc = "idle"
    /\ retriesLeft = 0 /\ invocations = 0 /\ sleeps = 0 /\ log = <<>>
    /\ pageToken = None /\ sent = <<>>
    /\ allItems = <<>> /\ nextPageToken = None /\ npt = None
    /\ outcome = "pending" /\ retval = <<>>
    /\ localFile = <<>>
    /\ bucket \in SUBSET KeyUniverse
    /\ \E l \in InitialLocal : localFiles = l.files /\ localDirs = l.dirs
    /\ stack = <<>> /\ fetched = <<>> /\ localAtStart = localFiles /\ runs = 0
    /\ args = <<>> /\ remote = <<>>
    /\ storageCached = 1 /\ pubsubCached = 0 /\ storageMade = 1 /\ pubsubMade = 0
    /\ gcpServiceKey = "key"

StoreReturn ==
    /\ pc = "done"
    /\ op' = "idle" /\ pc' = "idle"
    /\ outcome' = "pending" /\ retval' = <<>>
    /\ invocations' = 0
    /\ args' = <<>>
    /\ UNCHANGED <<pages, created, retriesLeft, sleeps, log, pageToken, sent, allItems,
                   nextPageToken, npt, localFile>>
    /\ UNCHANGED svars
    /\ UNCHANGED cvars

NextStore ==
    \/ ReadBucketFile
    \/ UploadBucketFile
    \/ DeleteBucketFile
    \/ ListBucketEntries
    \/ DownloadBucketFile
    \/ CallDownloadBucketDir
    \/ TreeEnter
    \/ TreeDownload
    \/ TreeListDirs
    \/ TreeRecurse
    \/ TreeReturn
    \/ StoreReturn

SpecStore == InitStore /\ [][NextStore]_vars

\* ===================================================== paths and file helpers
\* the character class [a-z0-9_.-] of GS_URL_REGEXP
ContainerChars ==
    {"a", "b", "c", "d", "e", "f", "g", "h", "i", "j", "k", "l", "m", "n", "o", "p", "q",
     "r", "s", "t", "u", "v", "w", "x", "y", "z",
     "0", "1", "2", "3", "4", "5", "6", "7", "8", "9", "_", ".", "-"}

\* the literal 'gs://'
GS == <<"g", "s", ":", "/", "/">>

\* what parseGCSPath returns for a path that is not a gs:// path (Python None)
Unparsed == [parsed |-> FALSE]

\* the strings of at most n characters over an alphabet
Strings(alphabet, n) == UNION { [1..k -> alphabet] : k \in 0..n }

\* the arguments tried: bucket names (valid and invalid characters), object
\* names (with slashes and line breaks) and whole paths, gs:// or not
ContainerStrings == Strings({"c", ".", "C"}, MaxContainer)
NameStrings == Strings({"n", "/", "\n"}, MaxName)
Schemes == { GS, <<"g", "s", ":", "/">>, <<>> }
PathStrings ==
    { s \o c \o sep \o n :
        s \in Schemes, c \in ContainerStrings, sep \in {<<>>, <<"/">>}, n \in NameStrings }

\* repackGCSPath built without the separator between bucket and name
repackGCSPathNoSeparator(bucketName, fileName) == GS \o bucketName \o fileName

\* repackGCSPath(bucketName, fileName)
repackGCSPath(bucketName, fileName) == GS \o bucketName \o <<"/">> \o fileName

\* parseGCSPath returning the last segment of the name only
parseGCSPathLastSegment(path) ==
    IF ~StartsWith(path, GS) \/ ~HasSlash(After(path, GS)) THEN Unparsed
    ELSE LET rest == After(path, GS)
             container == SubSeq(rest, 1, FirstSlash(rest) - 1)
             name == SubSeq(rest, FirstSlash(rest) + 1, Len(rest))
         IN IF \/ container = <<>>
               \/ \E j \in DOMAIN container : container[j] \notin ContainerChars
               \/ name = <<>>
               \/ \E j \in DOMAIN name : name[j] = "\n"
            THEN Unparsed
            ELSE [bucket |-> container, name |-> LastSegment(name)]

\* parseGCSPath that keeps a trailing slash
parseGCSPathKeepsSlash(path) ==
    IF ~StartsWith(path, GS) \/ ~HasSlash(After(path, GS)) THEN Unparsed
    ELSE LET rest == After(path, GS)
             container == SubSeq(rest, 1, FirstSlash(rest) - 1)
             name == SubSeq(rest, FirstSlash(rest) + 1, Len(rest))
         IN IF \/ container = <<>>
               \/ \E j \in DOMAIN container : container[j] \notin ContainerChars
               \/ name = <<>>
               \/ \E j \in DOMAIN name : name[j] = "\n"
            THEN Unparsed
            ELSE [bucket |-> container, name |-> name]

\* parseGCSPath that accepts any character in the bucket name
parseGCSPathAnyContainer(path) ==
    IF ~StartsWith(path, GS) \/ ~HasSlash(After(path, GS)) THEN Unparsed
    ELSE LET rest == After(path, GS)
             container == SubSeq(rest, 1, FirstSlash(rest) - 1)
             name == SubSeq(rest, FirstSlash(rest) + 1, Len(rest))
         IN IF \/ container = <<>>
               \/ name = <<>>
               \/ \E j \in DOMAIN name : name[j] = "\n"
            THEN Unparsed
            ELSE [bucket |-> container,
                  name |-> IF name[Len(name)] = "/" THEN StripLast(name) ELSE name]

\* parseGCSPath(path): re.findall('^gs://([a-z0-9_.-]+)/(.+)$', path) is anchored,
\* so it finds at most one match: the bucket is what stands between 'gs://' and
\* the next '/', the name is the rest. `.` matches no line break and `$` matches
\* at the end or just before a line break that ends the string. One trailing
\* slash of the name is stripped.
parseGCSPath(path) ==
    IF ~StartsWith(path, GS) \/ ~HasSlash(After(path, GS)) THEN Unparsed
    ELSE LET rest == After(path, GS)
             container == SubSeq(rest, 1, FirstSlash(rest) - 1)
             tail == SubSeq(rest, FirstSlash(rest) + 1, Len(rest))
             name == IF tail # <<>> /\ tail[Len(tail)] = "\n" THEN StripLast(tail) ELSE tail
         IN IF \/ container = <<>>
               \/ \E j \in DOMAIN container : container[j] \notin ContainerChars
               \/ name = <<>>
               \/ \E j \in DOMAIN name : name[j] = "\n"
            THEN Unparsed
            ELSE [bucket |-> container,
                  name |-> IF name[Len(name)] = "/" THEN StripLast(name) ELSE name]

\* the directories above a set of local paths
ParentDirs(paths) == { ParentDir(q) : q \in paths } \ {<<>>}

\* what the path functions leave alone
PathFrame == <<pages, created, pc, retriesLeft, invocations, sleeps, log, pageToken, sent,
               allItems, nextPageToken, npt, localFile, svars, storageCached, pubsubCached,
               storageMade, pubsubMade, gcpServiceKey>>

\* parseGCSPath is called
CallParseGCSPath ==
    /\ op = "idle"
    /\ \E path \in PathStrings :
        /\ op' = "parseGCSPath"
        /\ args' = <<path>>
        /\ retval' = parseGCSPath(path)
        /\ outcome' = IF parseGCSPath(path) = Unparsed THEN "None" ELSE "value"
        /\ remote' = <<>>
        /\ UNCHANGED PathFrame

\* repackGCSPath is called
CallRepackGCSPath ==
    /\ op = "idle"
    /\ \E bucketName \in ContainerStrings, fileName \in NameStrings :
        /\ op' = "repackGCSPath"
        /\ args' = <<bucketName, fileName>>
        /\ retval' = repackGCSPath(bucketName, fileName)
        /\ outcome' = "value"
        /\ remote' = <<>>
        /\ UNCHANGED PathFrame

\* readFile(filePath): a path that parses is read from the bucket (the object's
\* content, or the storage client's exception), any other path is opened locally
ReadFile ==
    /\ op = "idle"
    /\ \E filePath \in PathStrings :
        LET parsedPath == parseGCSPath(filePath) IN
        /\ op' = "readFile"
        /\ args' = <<filePath>>
        /\ IF parsedPath # Unparsed
           THEN /\ remote' = << <<"readBucketFile", parsedPath.bucket, parsedPath.name>> >>
                /\ \/ outcome' = "value" /\ retval' = <<"object", parsedPath.bucket, parsedPath.name>>
                   \/ outcome' = "ReadError" /\ retval' = <<>>
           ELSE /\ remote' = <<>>
                /\ IF IsFile(filePath)
                   THEN outcome' = "value" /\ retval' = <<"file", localFiles[filePath]>>
                   ELSE outcome' = "OSError" /\ retval' = <<>>
        /\ UNCHANGED PathFrame

\* the path function returns to its caller
PathReturn ==
    /\ op \in {"parseGCSPath", "repackGCSPath", "readFile"}
    /\ op' = "idle"
    /\ outcome' = "pending" /\ retval' = <<>>
    /\ args' = <<>> /\ remote' = <<>>
    /\ UNCHANGED PathFrame

\* the module after import, the storage client already built by an earlier
\* call, two local files present
InitPath ==
    /\ pages = << [items |-> <<>>, token |-> None] >>
    /\ created = 0
    /\ op = "idle" /\ pc = "idle"
    /\ retriesLeft = 0 /\ invocations = 0 /\ sleeps = 0 /\ log = <<>>
    /\ pageToken = None /\ sent = <<>>
    /\ allItems = <<>> /\ nextPageToken = None /\ npt = None
    /\ outcome = "pending" /\ retval = <<>>
    /\ localFile = <<>>
    /\ bucket = {}
    /\ localFiles = WithFile(WithFile(NoFiles, <<"n">>, <<"1">>), <<"c", "/", "n">>, <<"2">>)
    /\ localDirs = ParentDirs(DOMAIN localFiles)
    /\ stack = <<>> /\ fetched = <<>> /\ localAtStart = localFiles /\ runs = 0
    /\ args = <<>> /\ remote = <<>>
    /\ storageCached = 1 /\ pubsubCached = 0 /\ storageMade = 1 /\ pubsubMade = 0
    /\ gcpServiceKey = "key"

NextPath ==
    \/ CallParseGCSPath
    \/ CallRepackGCSPath
    \/ ReadFile
    \/ PathReturn

SpecPath == InitPath /\ [][NextPath]_vars

\* ------------------------------------------------------------------- copyFile
\* pathlib.PurePath(p).name
BaseName(p) == LastSegment(NoTrailingSlash(p))

\* the srcFilePath and destDir arguments tried
CopySources ==
    { <<"f">>, <<"L", "/", "f">>, <<"m">>, GS \o <<"c", "/", "n">> }
CopyDests ==
    { GS \o <<"c", "/", "d">>, GS \o <<"c", "/", "d", "/">>, GS \o <<"c", "/", "d", "/", "/">>,
      GS \o <<"c", "/", "/">>, GS \o <<"c", "/", "/", "/">>,
      <<"L">>, <<"L", "/">>, <<"D", "/", "E">>, <<"f">> }

\* shutil.copy(src, dst): how it ends and the local files it leaves
ShutilCopy(src, dst, dirs) ==
    LET target == IF NoTrailingSlash(dst) \in dirs THEN Join(dst, BaseName(src)) ELSE dst IN
    IF ~IsFile(src) THEN [how |-> "OSError", files |-> localFiles]
    ELSE IF target = src THEN [how |-> "SameFileError", files |-> localFiles]
    ELSE IF target \in dirs \/ ~(ParentDir(target) = <<>> \/ ParentDir(target) \in dirs)
    THEN [how |-> "OSError", files |-> localFiles]
    ELSE [how |-> "value", files |-> WithFile(localFiles, target, localFiles[src])]

\* copyFile after its assertion, lines 630-645: how it can end, what it
\* returns, the uploadBucketFile calls and backend uploads it makes, and the
\* bucket and local files it leaves
CopyFileBody(srcFilePath, destDir) ==
    LET parsedPath == parseGCSPath(destDir)
        same(how, ret, calls, n) ==
            [how |-> how, ret |-> ret, calls |-> calls, uploads |-> n,
             keys |-> bucket, files |-> localFiles, dirs |-> localDirs]
    IN
    IF parsedPath # Unparsed
    THEN IF parsedPath.name = <<>>
         THEN { same("IndexError", <<>>, <<>>, 0) }        \* `parsedPath['name'][-1]`
         ELSE LET gcsName == IF parsedPath.name[Len(parsedPath.name)] = "/"
                             THEN parsedPath.name \o BaseName(srcFilePath)
                             ELSE parsedPath.name \o <<"/">> \o BaseName(srcFilePath)
                  call == << <<"uploadBucketFile", parsedPath.bucket, gcsName, srcFilePath>> >>
              IN IF ~IsFile(srcFilePath)
                 THEN { same("OSError", <<>>, call, 0) }
                 ELSE { same("UploadError", <<>>, call, 1),
                        [how |-> "value", ret |-> repackGCSPath(parsedPath.bucket, gcsName),
                         calls |-> call, uploads |-> 1, keys |-> bucket \cup {gcsName},
                         files |-> localFiles, dirs |-> localDirs] }
    ELSE LET made == IF PathExists(destDir) THEN localDirs ELSE localDirs \cup MakeDirs(destDir)
             destPath == Join(destDir, BaseName(srcFilePath))
             copied == ShutilCopy(srcFilePath, destPath, made)
         IN IF ~PathExists(destDir) /\ MakeDirs(destDir) \cap DOMAIN localFiles # {}
            THEN { same("OSError", <<>>, <<>>, 0) }
            ELSE { [how |-> copied.how, ret |-> IF copied.how = "value" THEN destPath ELSE <<>>,
                    calls |-> <<>>, uploads |-> 0, keys |-> bucket,
                    files |-> copied.files, dirs |-> made] }

\* copyFile without its assertion
CopyFileResultsUnchecked(srcFilePath, destDir) == CopyFileBody(srcFilePath, destDir)

\* copyFile(srcFilePath, destDir): `assert not parsedPath` on the source, then the copy
CopyFileResults(srcFilePath, destDir) ==
    IF parseGCSPath(srcFilePath) # Unparsed
    THEN { [how |-> "AssertionError", ret |-> <<>>, calls |-> <<>>, uploads |-> 0,
            keys |-> bucket, files |-> localFiles, dirs |-> localDirs] }
    ELSE CopyFileBody(srcFilePath, destDir)

\* what copyFile leaves alone
CopyFrame == <<pages, created, pc, retriesLeft, sleeps, log, pageToken, sent, allItems,
               nextPageToken, npt, localFile, stack, fetched, localAtStart,
               storageCached, pubsubCached, storageMade, pubsubMade, gcpServiceKey>>

CopyFile ==
    /\ op = "idle" /\ runs < MaxRuns
    /\ \E srcFilePath \in CopySources, destDir \in CopyDests :
         \E r \in CopyFileResults(srcFilePath, destDir) :
            /\ op' = "copyFile"
            /\ runs' = runs + 1
            /\ args' = <<srcFilePath, destDir>>
            /\ outcome' = r.how /\ retval' = r.ret
            /\ remote' = r.calls /\ invocations' = r.uploads
            /\ bucket' = r.keys
            /\ localFiles' = r.files /\ localDirs' = r.dirs
            /\ UNCHANGED CopyFrame

\* copyFile returns to its caller
CopyReturn ==
    /\ op = "copyFile"
    /\ op' = "idle"
    /\ outcome' = "pending" /\ retval' = <<>>
    /\ args' = <<>> /\ remote' = <<>> /\ invocations' = 0
    /\ UNCHANGED <<runs, bucket, localFiles, localDirs>>
    /\ UNCHANGED CopyFrame

\* the module after import, the storage client already built by an earlier
\* call, the local files f and L/f present, the bucket empty or not
InitCopy ==
    /\ pages = << [items |-> <<>>, token |-> None] >>
    /\ created = 0
    /\ op = "idle" /\ pc = "idle"
    /\ retriesLeft = 0 /\ invocations = 0 /\ sleeps = 0 /\ log = <<>>
    /\ pageToken = None /\ sent = <<>>
    /\ allItems = <<>> /\ nextPageToken = None /\ npt = None
    /\ outcome = "pending" /\ retval = <<>>
    /\ localFile = <<>>
    /\ bucket \in { {}, {<<"d", "/", "f">>} }
    /\ localFiles = WithFile(WithFile(NoFiles, <<"f">>, <<"1">>), <<"L", "/", "f">>, <<"2">>)
    /\ localDirs = {<<"L">>}
    /\ stack = <<>> /\ fetched = <<>> /\ localAtStart = localFiles /\ runs = 0
    /\ args = <<>> /\ remote = <<>>
    /\ storageCached = 1 /\ pubsubCached = 0 /\ storageMade = 1 /\ pubsubMade = 0
    /\ gcpServiceKey = "key"

NextCopy ==
    \/ CopyFile
    \/ CopyReturn

SpecCopy == InitCopy /\ [][NextCopy]_vars

\* ============================================================ service clients
\* A client is known by its number: the n-th client constructed has number n;
\* cachedClient = None is 0.

\* the constructor getStorageClient picks: `getattr(settings, 'gcpServiceKey', None)`
StorageConstructor ==
    IF gcpServiceKey \in {"absent", ""} THEN "storage.Client" ELSE "from_service_account_json"

\* getStorageClient building a client on every call
GetStorageClientUncached ==
    { [how |-> "value", handle |-> storageMade + 1, cached |-> storageMade + 1,
       made |-> storageMade + 1, calls |-> << <<"construct", StorageConstructor>> >>],
      [how |-> "AuthError", handle |-> 0, cached |-> storageCached,
       made |-> storageMade, calls |-> << <<"construct", StorageConstructor>> >>] }

\* getStorageClient(): how one call can end, the handle it returns, and the
\* cache and the number of clients constructed it leaves
GetStorageClientResults ==
    IF storageCached # 0
    THEN { [how |-> "value", handle |-> storageCached, cached |-> storageCached,
            made |-> storageMade, calls |-> <<>>] }
    ELSE { [how |-> "value", handle |-> storageMade + 1, cached |-> storageMade + 1,
            made |-> storageMade + 1, calls |-> << <<"construct", StorageConstructor>> >>],
           [how |-> "AuthError", handle |-> 0, cached |-> storageCached,
            made |-> storageMade, calls |-> << <<"construct", StorageConstructor>> >>] }

\* getPubsubClient(): the same, except that `settings.gcpServiceKey` is read
\* without a default and raises when the settings file has no such key
GetPubsubClientResults ==
    IF pubsubCached # 0
    THEN { [how |-> "value", handle |-> pubsubCached, cached |-> pubsubCached,
            made |-> pubsubMade, calls |-> <<>>] }
    ELSE IF gcpServiceKey = "absent"
    THEN { [how |-> "AttributeError", handle |-> 0, cached |-> pubsubCached,
            made |-> pubsubMade, calls |-> <<>>] }
    ELSE LET ctor == IF gcpServiceKey = "" THEN "pubsub_v1.PublisherClient"
                     ELSE "PublisherClient.from_service_account_json" IN
         { [how |-> "value", handle |-> pubsubMade + 1, cached |-> pubsubMade + 1,
            made |-> pubsubMade + 1, calls |-> << <<"construct", ctor>> >>],
           [how |-> "AuthError", handle |-> 0, cached |-> pubsubCached,
            made |-> pubsubMade, calls |-> << <<"construct", ctor>> >>] }

\* what the client functions leave alone
ClientFrame == <<pages, created, pc, retriesLeft, invocations, sleeps, log, pageToken, sent,
                 allItems, nextPageToken, npt, localFile, bucket, localFiles, localDirs,
                 stack, fetched, localAtStart, args, gcpServiceKey>>

\* a function that uses the storage client is called
EnterStorageUser(name, r) ==
    /\ op = "idle" /\ runs < MaxCalls
    /\ op' = name
    /\ runs' = runs + 1
    /\ storageCached' = r.cached /\ storageMade' = r.made
    /\ UNCHANGED <<pubsubCached, pubsubMade>>
    /\ UNCHANGED ClientFrame

\* a function that uses the pubsub client is called
EnterPubsubUser(name, r) ==
    /\ op = "idle" /\ runs < MaxCalls
    /\ op' = name
    /\ runs' = runs + 1
    /\ pubsubCached' = r.cached /\ pubsubMade' = r.made
    /\ UNCHANGED <<storageCached, storageMade>>
    /\ UNCHANGED ClientFrame

CallGetStorageClient ==
    \E r \in GetStorageClientResults :
        /\ EnterStorageUser("getStorageClient", r)
        /\ outcome' = r.how /\ retval' = r.handle
        /\ remote' = r.calls

CallGetPubsubClient ==
    \E r \in GetPubsubClientResults :
        /\ EnterPubsubUser("getPubsubClient", r)
        /\ outcome' = r.how /\ retval' = r.handle
        /\ remote' = r.calls

\* listBuckets(): list_buckets() on the client obtained
CallListBuckets ==
    \E r \in GetStorageClientResults :
        /\ EnterStorageUser("listBuckets", r)
        /\ retval' = <<>>
        /\ IF r.how # "value"
           THEN outcome' = r.how /\ remote' = r.calls
           ELSE /\ outcome' \in {"value", "ListError"}
                /\ remote' = r.calls \o << <<"list_buckets", r.handle>> >>

\* getBucketFile(bucketName, fileID): a blob of the client obtained, no backend call
CallGetBucketFile ==
    \E r \in GetStorageClientResults :
        /\ EnterStorageUser("getBucketFile", r)
        /\ outcome' = r.how
        /\ retval' = IF r.how = "value" THEN <<"blob", r.handle>> ELSE <<>>
        /\ remote' = r.calls

\* publish re-attempting a failed backend call and returning None in the end
CallPublishRetryGated ==
    \E pubsubTopic \in {"", "topic"}, r \in GetPubsubClientResults :
        /\ retval' = <<>>
        /\ IF pubsubTopic = ""
           THEN /\ EnterPubsubUser("publish", [cached |-> pubsubCached, made |-> pubsubMade])
                /\ outcome' = "None" /\ remote' = <<>>
           ELSE /\ EnterPubsubUser("publish", r)
                /\ IF r.how # "value"
                   THEN outcome' = r.how /\ remote' = r.calls
                   ELSE \/ /\ outcome' = "value"
                           /\ remote' = r.calls \o << <<"publish", r.handle>> >>
                        \/ /\ outcome' = "None"
                           /\ remote' = r.calls \o [i \in 1..5 |-> <<"publish", r.handle>>]

\* publish(data): nothing is done without settings.pubsubTopic
CallPublish ==
    \E pubsubTopic \in {"", "topic"}, r \in GetPubsubClientResults :
        /\ retval' = <<>>
        /\ IF pubsubTopic = ""
           THEN /\ EnterPubsubUser("publish", [cached |-> pubsubCached, made |-> pubsubMade])
                /\ outcome' = "None" /\ remote' = <<>>
           ELSE /\ EnterPubsubUser("publish", r)
                /\ IF r.how # "value"
                   THEN outcome' = r.how /\ remote' = r.calls
                   ELSE /\ outcome' \in {"value", "PublishError"}
                        /\ remote' = r.calls \o << <<"publish", r.handle>> >>

\* the function returns to its caller; the cached clients stay
ClientReturn ==
    /\ op \in {"getStorageClient", "getPubsubClient", "listBuckets", "getBucketFile", "publish"}
    /\ op' = "idle"
    /\ outcome' = "pending" /\ retval' = <<>>
    /\ remote' = <<>>
    /\ UNCHANGED <<runs, storageCached, storageMade, pubsubCached, pubsubMade>>
    /\ UNCHANGED ClientFrame

\* the module after import: no client yet; the settings file read at start-up
\* has no gcpServiceKey, an empty one, or the path of a key file
InitClient ==
    /\ pages = << [items |-> <<>>, token |-> None] >>
    /\ created = 0
    /\ op = "idle" /\ pc = "idle"
    /\ retriesLeft = 0 /\ invocations = 0 /\ sleeps = 0 /\ log = <<>>
    /\ pageToken = None /\ sent = <<>>
    /\ allItems = <<>> /\ nextPageToken = None /\ npt = None
    /\ outcome = "pending" /\ retval = <<>>
    /\ localFile = <<>>
    /\ bucket = {} /\ localFiles = NoFiles /\ localDirs = {}
    /\ stack = <<>> /\ fetched = <<>> /\ localAtStart = localFiles /\ runs = 0
    /\ args = <<>> /\ remote = <<>>
    /\ storageCached = 0 /\ pubsubCached = 0 /\ storageMade = 0 /\ pubsubMade = 0
    /\ gcpServiceKey \in {"absent", "", "key"}

NextClient ==
    \/ CallGetStorageClient
    \/ CallGetPubsubClient
    \/ CallListBuckets
    \/ CallGetBucketFile
    \/ CallPublish
    \/ ClientReturn

SpecClient == InitClient /\ [][NextClient]_vars

\* ===================================================== properties (Drive)
Failures == Cardinality({ i \in DOMAIN log : log[i][1] = "warning" })

RetryWrapped == {"createFolder", "driveListFilesQueryWithNextToken", "uploadFile"}

RECURSIVE ConcatPages(_)
ConcatPages(n) == IF n = 0 THEN <<>> ELSE ConcatPages(n - 1) \o pages[n].items

Matches == pages[1].items

\* C1: a retry-wrapped operation whose remote call failed on every attempt has
\* made exactly 5 attempts and 4 sleeps of 5 seconds (none after the last
\* failure) and returns None instead of raising.
C1_Exhaustion ==
    (op \in RetryWrapped /\ pc = "done" /\ Failures = invocations)
        => /\ invocations = 5
           /\ sleeps = 4
           /\ sleeps * sleepSeconds = (5 - 1) * 5
           /\ outcome = "None"

C1_Witness ==
    op = "uploadFile" /\ pc = "done" /\ Failures = invocations /\ outcome = "None"

\* C2: a retry-wrapped operation whose remote call failed k times (0 <= k <= 4)
\* and then succeeded returns the success value after exactly k+1 invocations
\* and k sleeps; once it has returned nothing more is invoked or slept.
C2_SuccessAfterFailures ==
    /\ (op \in RetryWrapped /\ pc = "done" /\ Failures < invocations)
          => /\ Failures \in 0..4
             /\ invocations = Failures + 1
             /\ sleeps = Failures
             /\ outcome = "value"
             /\ (op = "driveListFilesQueryWithNextToken"
                    => retval = <<pages[PageOf(pageToken)].items, pages[PageOf(pageToken)].token>>)
             /\ (op # "driveListFilesQueryWithNextToken" => retval = created)
    /\ (op \in RetryWrapped /\ pc = "retry") => Failures = invocations

C2_Witness ==
    /\ op = "driveListFilesQueryWithNextToken" /\ pc = "done" /\ outcome = "value"
    /\ Failures = 2 /\ invocations = 3

\* C3: for a listing of N >= 1 pages whose continuation tokens are backend
\* cursors (none of them the client's reserved value 'init') and whose page
\* fetches all succeed, searchAllFiles makes exactly N page fetches, ends, and
\* returns the items of all N pages concatenated in page order.
NoReservedToken == "init" \notin ValidTokens

C4_PartialResultOnFailure ==
    (op = "searchAllFiles" /\ pc = "done" /\ Failures = invocations)
        => (outcome = "value" /\ retval = allItems)

\* C6 (as claimed): downloadFile writes localPath only when the search yields
\* exactly one match; with zero or several matches it aborts and writes nothing.
C6_AbortsUnlessUnique ==
    /\ Len(Matches) # 1 => localFile = <<>>
    /\ (op = "downloadFile" /\ pc = "done" /\ Len(Matches) # 1)
          => outcome \notin {"None", "value"}

\* C6 (amended): downloadFile exits without writing exactly when the search
\* yields zero matches; with one or more matches it downloads the first match
\* and, when that download completes, its bytes are what is at localPath.
C6_AbortsOnlyOnZero ==
    /\ Len(Matches) = 0 => localFile = <<>>
    /\ localFile # <<>> => localFile = <<Matches[1].id>>
    /\ (op = "downloadFile" /\ pc = "done")
          => /\ outcome = "exit" <=> (Len(Matches) = 0 /\ Failures < invocations)
             /\ outcome = "TypeError" <=> Failures = invocations
             /\ outcome = "None" => localFile = <<Matches[1].id>>
             /\ outcome \in {"exit", "TypeError", "None", "BackendError"}

C6_Witness ==
    /\ op = "downloadFile" /\ pc = "done" /\ outcome = "None"
    /\ Len(Matches) = 2 /\ localFile = <<Matches[1].id>>

\* C7: getDirForClassCamera returns a (folderID, folderName) pair only when the
\* name search yields exactly one folder, and then that folder's id and name;
\* for every other match count it raises.
C7_UniqueFolder ==
    (op = "getDirForClassCamera" /\ pc = "done")
        => /\ outcome = "value" <=> (Len(Matches) = 1 /\ Failures < invocations)
           /\ outcome = "value" => retval = <<Matches[1].id, Matches[1].name>>
           /\ Len(Matches) # 1 => outcome \in {"Exception", "TypeError"}
           /\ outcome \in {"value", "Exception", "TypeError"}

C7_Witness ==
    /\ op = "getDirForClassCamera" /\ pc = "done" /\ outcome = "Exception"
    /\ Len(Matches) = 2

\* ============================================= properties (Cloud Storage)
StoreOps == {"readBucketFile", "uploadBucketFile", "deleteBucketFile",
             "listBucketEntries", "downloadBucketFile"}

SyncPrefix == <<"a", "/">>
UnderPrefix == { k \in bucket : StartsWith(k, SyncPrefix) }
\* the local path of the object k: the local root, then k's path below the prefix
LocalPathOf(k) == LocalRoot \o <<"/">> \o After(k, SyncPrefix)
Occurrences(q, x) == Cardinality({ i \in DOMAIN q : q[i] = x })

\* C5 (as claimed): a bucket operation whose backend call fails ends with a
\* null/empty result instead of the backend's exception.
C5_StoreOpsRetryGated ==
    (op \in StoreOps /\ pc = "done") => outcome \notin BackendErrors

\* C5 (amended): no bucket operation has a retry loop: each makes at most one
\* backend call and no sleep, a failing call raises to the caller and leaves
\* the bucket and the local files as they were, and a download that returns
\* normally after its call has written the local file.
C5_StoreOpsSingleAttempt ==
    (op \in StoreOps /\ pc = "done")
        => /\ invocations <= 1 /\ sleeps = 0 /\ log = <<>>
           /\ outcome \in BackendErrors => (invocations = 1 /\ localFiles = localAtStart)
           /\ (op = "downloadBucketFile" /\ outcome = "None")
                 => (invocations = 1 <=> localFiles # localAtStart)

C5_Witness ==
    /\ op = "downloadBucketFile" /\ pc = "done" /\ outcome = "DownloadError"
    /\ invocations = 1 /\ sleeps = 0

\* C8: a downloadBucketDir that returns has mirrored the objects below the
\* prefix: the object at relative path r is the local file L/r, its directory
\* exists, no other local file appeared, every object without a local file at
\* the start was fetched exactly once, and an object whose local file existed
\* was not fetched and its file was left as it was.
C8_Mirror ==
    (op = "downloadBucketDir" /\ pc = "done" /\ outcome = "None")
        => /\ DOMAIN localFiles = DOMAIN localAtStart \cup { LocalPathOf(k) : k \in UnderPrefix }
           /\ \A k \in UnderPrefix :
                /\ ParentDir(LocalPathOf(k)) \in localDirs
                /\ IF LocalPathOf(k) \in DOMAIN localAtStart
                   THEN /\ Occurrences(fetched, k) = 0
                        /\ localFiles[LocalPathOf(k)] = localAtStart[LocalPathOf(k)]
                   ELSE /\ Occurrences(fetched, k) = 1
                        /\ localFiles[LocalPathOf(k)] = k
           /\ \A i \in DOMAIN fetched : fetched[i] \in UnderPrefix

\* the tree a/f1, a/b/f2 synced into L where L/f1 was already present
C8_Witness ==
    /\ op = "downloadBucketDir" /\ pc = "done" /\ outcome = "None"
    /\ bucket = { <<"a", "/", "f", "1">>, <<"a", "/", "b", "/", "f", "2">> }
    /\ DOMAIN localFiles = { <<"L", "/", "f", "1">>, <<"L", "/", "b", "/", "f", "2">> }
    /\ <<"L", "/", "f", "1">> \in DOMAIN localAtStart
    /\ fetched = << <<"a", "/", "b", "/", "f", "2">> >>

\* C9 (as claimed): every recursive call of downloadBucketDir is made on a
\* prefix strictly longer than its caller's, so the recursion ends without
\* visiting a prefix twice, whatever keys the bucket holds.
C9_StrictlyDeeper ==
    /\ \A i \in 2..Len(stack) :
          Len(EnsureTrailingSlash(stack[i].dirID)) > Len(EnsureTrailingSlash(stack[i - 1].dirID))
    /\ outcome # "RecursionError"

WellFormedContainer(c) == c # <<>> /\ \A j \in DOMAIN c : c[j] \in ContainerChars

SingleLine(s) == \A j \in DOMAIN s : s[j] # "\n"
EndsWithSlash(s) == s # <<>> /\ s[Len(s)] = "/"
StartsWithSlash(s) == s # <<>> /\ s[1] = "/"

\* an object name: at least one character, no line break
IsKey(n) == n # <<>> /\ SingleLine(n)

\* p reads gs://container/name: some '/' splits what follows 'gs://' into a
\* well-formed container and a name that is not empty
IsGCSPath(p) ==
    \E i \in (Len(GS) + 2)..(Len(p) - 1) :
        /\ SubSeq(p, 1, Len(GS)) = GS
        /\ p[i] = "/"
        /\ WellFormedContainer(SubSeq(p, Len(GS) + 1, i - 1))

\* C11: parsing the path repacked from a well-formed container c and a key n
\* that does not end in '/' gives back exactly {bucket: c, name: n}.
C11_ParseAfterRepack ==
    (/\ op = "repackGCSPath"
     /\ WellFormedContainer(args[1])
     /\ IsKey(args[2]) /\ ~EndsWithSlash(args[2]))
    => parseGCSPath(retval) = [bucket |-> args[1], name |-> args[2]]

C11_Witness ==
    /\ op = "repackGCSPath"
    /\ args = << <<"c", ".">>, <<"n", "/", "n">> >>
    /\ retval = GS \o <<"c", ".", "/", "n", "/", "n">>
    /\ parseGCSPath(retval).name = <<"n", "/", "n">>

\* C12: a path that reads gs://container/name and does not end in '/' is
\* parsed, and repacking the parsed bucket and name gives the path back.
C12_RepackAfterParse ==
    (/\ op = "parseGCSPath"
     /\ IsGCSPath(args[1]) /\ SingleLine(args[1])
     /\ ~EndsWithSlash(args[1]))
    => /\ retval # Unparsed
       /\ repackGCSPath(retval.bucket, retval.name) = args[1]

C12_Witness ==
    /\ op = "parseGCSPath"
    /\ args[1] = GS \o <<"c", "/", "n", "/", "n">>
    /\ retval = [bucket |-> <<"c">>, name |-> <<"n", "/", "n">>]

\* C13: whenever parseGCSPath returns a result, its bucket is made of
\* [a-z0-9_.-] and its name neither starts nor ends with '/'.
C13_NameHasNoOuterSlash ==
    (op = "parseGCSPath" /\ retval # Unparsed)
    => /\ WellFormedContainer(retval.bucket)
       /\ ~StartsWithSlash(retval.name)
       /\ ~EndsWithSlash(retval.name)

\* C14: for a well-formed container c and a key n not ending in '/', the
\* path gs://c/n/ parses to the same result as gs://c/n: bucket c, name n.
C14_TrailingSlashStripped ==
    (/\ op = "parseGCSPath"
     /\ EndsWithSlash(args[1])
     /\ IsGCSPath(StripLast(args[1])) /\ SingleLine(args[1])
     /\ ~EndsWithSlash(StripLast(args[1])))
    => /\ retval # Unparsed
       /\ retval = parseGCSPath(StripLast(args[1]))
       /\ repackGCSPath(retval.bucket, retval.name) = StripLast(args[1])

C14_Witness ==
    /\ op = "parseGCSPath"
    /\ args[1] = GS \o <<"c", "/", "n", "n", "/">>
    /\ retval = [bucket |-> <<"c">>, name |-> <<"n", "n">>]

\* C15: parseGCSPath returns None exactly for the strings that do not read
\* gs://container/name; readFile makes one readBucketFile call with the parsed
\* bucket and name exactly when the path parses, and otherwise reads the
\* local file without any call to the bucket.
C15_RoutingByPathKind ==
    /\ (op = "parseGCSPath" /\ SingleLine(args[1]))
       => ((retval = Unparsed) <=> ~IsGCSPath(args[1]))
    /\ (op = "readFile" /\ SingleLine(args[1]))
       => IF IsGCSPath(args[1])
          THEN /\ remote = << <<"readBucketFile", parseGCSPath(args[1]).bucket,
                               parseGCSPath(args[1]).name>> >>
               /\ outcome \in {"value", "ReadError"}
               /\ outcome = "value" => retval[1] = "object"
          ELSE /\ remote = <<>>
               /\ outcome \in {"value", "OSError"}
               /\ outcome = "value" <=> args[1] \in DOMAIN localFiles
               /\ outcome = "value" => retval = <<"file", localFiles[args[1]]>>

C15_Witness ==
    \/ /\ op = "readFile" /\ args[1] = GS \o <<"c", "/", "n">>
       /\ remote = << <<"readBucketFile", <<"c">>, <<"n">>>> >> /\ outcome = "value"
    \/ /\ op = "readFile" /\ args[1] = <<"c", "/", "n">>
       /\ remote = <<>> /\ retval = <<"file", <<"2">>>>

\* =============================================== properties (service clients)
StorageUsers == {"getStorageClient", "listBuckets", "getBucketFile"}
PubsubUsers == {"getPubsubClient", "publish"}

\* every backend call of the running function goes through client number 1
UsesFirstClient ==
    \A i \in DOMAIN remote :
        remote[i][1] \in {"list_buckets", "publish"} => remote[i][2] = 1

\* C16: the storage client and the pubsub client are each constructed at most
\* once, only by a call of a function that needs them, and every call that
\* returns a client returns the one constructed first.
C16_LazySingletons ==
    /\ [](/\ storageMade <= 1 /\ pubsubMade <= 1
          /\ storageCached = storageMade /\ pubsubCached = pubsubMade
          /\ runs = 0 => (storageMade = 0 /\ pubsubMade = 0)
          /\ (op \in {"getStorageClient", "getPubsubClient"} /\ outcome = "value") => retval = 1
          /\ (op = "getBucketFile" /\ outcome = "value") => retval = <<"blob", 1>>
          /\ UsesFirstClient)
    /\ [][/\ storageMade' # storageMade => op' \in StorageUsers
          /\ pubsubMade' # pubsubMade => (op' \in PubsubUsers /\ remote' # <<>>)
          /\ storageCached # 0 => storageCached' = storageCached
          /\ pubsubCached # 0 => pubsubCached' = pubsubCached]_vars

C16_Witness ==
    /\ runs = 3
    /\ op = "listBuckets" /\ remote = << <<"list_buckets", 1>> >>
    /\ storageMade = 1 /\ pubsubMade = 1

\* ====================================================== properties (copyFile)
\* C17: copyFile of a local file to a destination that parses as {bucket,
\* name} makes exactly one uploadBucketFile call, to the key name + '/' +
\* basename(src), and returns the repacked path of that key; to a local
\* destination it makes the directory, copies to destDir/basename(src) and
\* returns that path.
C17_CopyAppendsBaseName ==
    (op = "copyFile" /\ parseGCSPath(args[1]) = Unparsed /\ IsFile(args[1]))
    => IF parseGCSPath(args[2]) # Unparsed
       THEN LET dest == parseGCSPath(args[2])
                key == dest.name \o <<"/">> \o BaseName(args[1])
            IN /\ remote = << <<"uploadBucketFile", dest.bucket, key, args[1]>> >>
               /\ invocations = 1
               /\ outcome \in {"value", "UploadError"}
               /\ outcome = "value" => retval = repackGCSPath(dest.bucket, key)
       ELSE /\ remote = <<>>
            /\ outcome = "value"
               => /\ retval = Join(args[2], BaseName(args[1]))
                  /\ NoTrailingSlash(args[2]) \in localDirs
                  /\ retval \in DOMAIN localFiles


\* ============================================== properties (Drive, searchFiles)
\* C18: searchFiles called with npt = 'init' lists with a null page token and
\* returns the pair (items, nextPageToken) of the first page; called with
\* another token of the backend it lists with that very token and returns the
\* pair of the page the token stands for.
C18_InitMeansNoToken ==
    (op = "searchFiles" /\ npt # None)
    => /\ sent = << IF npt = "init" THEN None ELSE npt >>
       /\ pageToken = sent[1]
       /\ pc = "done" => outcome \in {"value", "None"}
       /\ (pc = "done" /\ outcome = "value")
             => LET k == IF npt = "init" THEN 1 ELSE PageOf(npt)
                IN retval = <<pages[k].items, pages[k].token>>

C18_Witness ==
    /\ op = "searchFiles" /\ pc = "done" /\ outcome = "value"
    /\ npt = "init" /\ sent = <<None>>
    /\ Len(pages) >= 2 /\ retval = <<pages[1].items, pages[1].token>>


\* ========================= properties (Cloud Storage, single-file and listing)
\* C19: a downloadBucketFile whose local file already exists makes no backend
\* call and leaves every local file as it was, whatever the object holds; a
\* backend call is made only when the local file did not exist.
C19_SkipIfExists ==
    (op = "downloadBucketFile" /\ pc = "done")
    => /\ args[2] \in DOMAIN localAtStart
            => (invocations = 0 /\ fetched = <<>> /\ localFiles = localAtStart /\ outcome = "None")
       /\ invocations > 0 => args[2] \notin DOMAIN localAtStart

\* the object a/f1 is in the bucket and the local file L/f1 holds something else
C19_Witness ==
    /\ op = "downloadBucketFile" /\ pc = "done" /\ outcome = "None"
    /\ args = << <<"a", "/", "f", "1">>, <<"L", "/", "f", "1">> >>
    /\ <<"a", "/", "f", "1">> \in bucket
    /\ localFiles[<<"L", "/", "f", "1">>] # <<"a", "/", "f", "1">>
    /\ invocations = 0

\* C20: a listBucketEntries that returns lists, without repetition: the names
\* with no '/' after the prefix when neither getDirs nor deep is set; the
\* direct sub-prefixes, each once and without its trailing '/', when getDirs
\* is set; every name that starts with the prefix when deep is set.
C20_ListingModes ==
    (op = "listBucketEntries" /\ pc = "done")
    => LET prefix == args[1]
           getDirs == args[2]
           deep == args[3]
           under == { k \in bucket : StartsWith(k, prefix) }
           listed == { retval[i] : i \in DOMAIN retval }
           subdirs == { d \in UNION { { SubSeq(k, 1, i) : i \in Len(prefix)..Len(k) } : k \in under } :
                          /\ ~HasSlash(After(d, prefix))
                          /\ \E k \in under : StartsWith(k, d \o <<"/">>) }
       IN /\ outcome = "AssertionError" <=> (getDirs /\ deep)
          /\ outcome = "value"
               => /\ Cardinality(listed) = Len(retval)
                  /\ listed = IF getDirs THEN subdirs
                              ELSE IF deep THEN under
                              ELSE { k \in under : ~HasSlash(After(k, prefix)) }

\* a/f1, a/g and a/b/f2 listed at a/: the two direct names, a/b/f2 left out
C20_Witness ==
    /\ op = "listBucketEntries" /\ pc = "done" /\ outcome = "value"
    /\ args = << <<"a", "/">>, FALSE, FALSE >>
    /\ bucket = { <<"a", "/", "f", "1">>, <<"a", "/", "g">>, <<"a", "/", "b", "/", "f", "2">> }
    /\ retval = << <<"a", "/", "f", "1">>, <<"a", "/", "g">> >>


\* ======================================================= properties (publish)
\* the backend publish calls of the running function
PublishCalls == Cardinality({ i \in DOMAIN remote : remote[i][1] = "publish" })

\* C21 (as claimed): a failing publish is re-attempted and in the end
\* returns None; the backend's fault never reaches the caller of publish.
C21_PublishRetryGated ==
    op = "publish" => outcome # "PublishError"

\* C21 (amended): publish makes at most one backend call, without delay or
\* log line; a failing call reaches the caller as the client's exception, and
\* None is returned only when no topic is set, with no backend call at all.
C21_PublishSingleAttempt ==
    op = "publish"
    => /\ PublishCalls <= 1 /\ sleeps = 0 /\ log = <<>>
       /\ outcome \in {"value", "PublishError"} <=> PublishCalls = 1
       /\ outcome = "None" => remote = <<>>

C21_Witness ==
    /\ op = "publish" /\ outcome = "PublishError"
    /\ PublishCalls = 1 /\ sleeps = 0


\* ============================================ properties (Drive, exhaustion)
\* the functions that search through driveListFilesQuery
QuerySearchers == {"driveListFilesByName", "downloadFile", "getDirForClassCamera"}

\* C22: when all 5 attempts of the list call failed, a search by name (and
\* searchFiles without a page token) returns a null or empty result, and
\* downloadFile and getDirForClassCamera do not end in a fault of another kind.
C22_SearchDegradesToNull ==
    (/\ op \in QuerySearchers \/ (op = "searchFiles" /\ npt = None)
     /\ pc = "done" /\ Failures = invocations)
    => /\ invocations = 5
       /\ outcome # "TypeError"
       /\ op \in {"driveListFilesByName", "searchFiles"} => outcome \in {"None", "value"}

\* C23: in a retry loop the i-th failed attempt leaves exactly one warning
\* line, carrying 5 - i retries left (4, 3, 2, 1, 0); one error line follows
\* the fifth warning when the loop is exhausted and is written in no other
\* case; a call that succeeds at its first attempt leaves no line.
C23_RetryLogging ==
    op \in RetryWrapped
    => /\ \A i \in 1..Failures : log[i] = <<"warning", 5 - i>>
       /\ Failures \in {invocations, invocations - 1}
       /\ Len(log) \in {Failures, Failures + 1}
       /\ Len(log) = Failures + 1
            <=> (Failures = 5 /\ pc = "done" /\ log[Len(log)] = <<"error">>)
       /\ (pc = "done" /\ invocations = 1 /\ outcome = "value") => log = <<>>

C23_Witness ==
    /\ op = "createFolder" /\ pc = "done" /\ outcome = "None"
    /\ log = << <<"warning", 4>>, <<"warning", 3>>, <<"warning", 2>>, <<"warning", 1>>,
                <<"warning", 0>>, <<"error">> >>

\* C24: when the search of getDirForClassCamera succeeded with a match count
\* other than one, the function raises at once: the search was issued once,
\* and nothing is slept or invoked after the attempt that succeeded.
C24_MismatchNotRetried ==
    (op = "getDirForClassCamera" /\ pc = "done" /\ Failures < invocations /\ Len(Matches) # 1)
    => /\ outcome = "Exception"
       /\ sent = <<None>>
       /\ invocations = Failures + 1
       /\ sleeps = Failures

C24_Witness ==
    /\ op = "getDirForClassCamera" /\ pc = "done" /\ outcome = "Exception"
    /\ Len(Matches) = 0 /\ invocations = 1 /\ sleeps = 0 /\ sent = <<None>>


\* ============================================ properties (tree sync order)
\* the names directly at the level of a frame
DirectFiles(frame) == ListBlobs(frame.dirID, "/")

\* C25: downloadBucketDir works on one directory at a time, the innermost
\* one: its local directory exists before any of its files is handled, its
\* files are handled in listing order, a subdirectory is entered only when
\* every direct file of the level has been handled, and the levels above
\* stay as they are until the subdirectory's whole subtree is done.
C25_DepthFirstSequential ==
    /\ [](( op = "downloadBucketDir" /\ stack # <<>> ) =>
            /\ \A i \in 1..(Len(stack) - 1) : stack[i].pc = "dirs" /\ stack[i].files = <<>>
            /\ \A i \in DOMAIN stack :
                 stack[i].pc # "enter"
                 => /\ NoTrailingSlash(stack[i].localDirPath) \in localDirs
                    /\ LET listing == Sorted(DirectFiles(stack[i]))
                           n == Len(stack[i].files)
                       IN /\ n <= Len(listing)
                          /\ stack[i].files = SubSeq(listing, Len(listing) - n + 1, Len(listing))
                 )
    /\ [][ op = "downloadBucketDir" /\ stack # <<>> =>
            /\ fetched' # fetched
                 => /\ Top.pc = "files"
                    /\ fetched' = Append(fetched, Head(Top.files))
            /\ localFiles' # localFiles
                 => DOMAIN localFiles' = DOMAIN localFiles \cup
                                           {Join(Top.localDirPath, LastSegment(Head(Top.files)))}
            /\ Len(stack') > Len(stack)
                 => /\ Len(stack') = Len(stack) + 1
                    /\ Top.pc = "dirs" /\ Top.files = <<>>
                    /\ \A k \in DirectFiles(Top) :
                          Join(Top.localDirPath, LastSegment(k)) \in DOMAIN localFiles
                    /\ stack'[Len(stack')].pc = "enter"
            /\ (Len(stack') < Len(stack) /\ outcome' \in {"pending", "None"})
                 => /\ Len(stack') = Len(stack) - 1
                    /\ Top.pc = "dirs" /\ Top.dirs = <<>>
            /\ \A i \in 1..(Len(stack) - 1) :
                  i < Len(stack') => stack'[i] = stack[i]
          ]_vars

\* a/f1 has been fetched and the sync is inside a/b, about to fetch a/b/f2
C25_Witness ==
    /\ op = "downloadBucketDir" /\ pc = "run" /\ Len(stack) = 2
    /\ fetched = << <<"a", "/", "f", "1">> >>
    /\ stack[2].dirID = <<"a", "/", "b", "/">> /\ stack[2].pc = "files"
    /\ stack[2].files = << <<"a", "/", "b", "/", "f", "2">> >>
    /\ stack[1].pc = "dirs"


\* ============================================ properties (copyFile, source)
\* C26: a copyFile whose source parses as a gs:// path ends in AssertionError
\* and does nothing else: no uploadBucketFile call, no backend upload, no
\* directory made, no local file written, the bucket as it was.
C26_RemoteSourceRejected ==
    [][ (op' = "copyFile" /\ op = "idle" /\ parseGCSPath(args'[1]) # Unparsed)
        => /\ outcome' = "AssertionError"
           /\ remote' = <<>> /\ invocations' = 0
           /\ UNCHANGED <<bucket, localFiles, localDirs>> ]_vars

C26_Witness ==
    /\ op = "copyFile" /\ outcome = "AssertionError"
    /\ args = << GS \o <<"c", "/", "n">>, <<"D", "/", "E">> >>
    /\ <<"D">> \notin localDirs /\ remote = <<>>


\* ========================================= properties (Drive, paging tokens)
\* C27: in searchAllFiles the first fetch carries no page token, every later
\* fetch carries the token the page fetched just before returned, whatever
\* that token is, and no page is fetched twice.
C27_TokenProtocol ==
    op = "searchAllFiles"
    => /\ sent[1] = None
       /\ \A i \in 2..Len(sent) : sent[i] = pages[PageOf(sent[i - 1])].token
       /\ \A i, j \in DOMAIN sent : i # j => PageOf(sent[i]) # PageOf(sent[j])
       /\ pc # "capped"

====
